---------------------------- MODULE Spec2Model ----------------------------
(***************************************************************************)
(* Inline cell-edit controller of the feeding table (FeedingLog.tsx) and   *)
(* of the sleep table (SleepLog, src/unnamed/part_000), together with the  *)
(* storage collaborator they call through lib/api.ts and the list cache    *)
(* (react-query) that owns the displayed lists.                            *)
(*                                                                         *)
(* One step of the model is one handler or callback of the components run  *)
(* to completion (the UI is single-threaded): a user gesture, a timer      *)
(* firing, or the completion of a storage call.  Only the table whose tab  *)
(* is selected in the Dashboard is mounted.  A behaviour follows one       *)
(* mounted table, from the moment the first fetch of the lists has         *)
(* resolved until after the user has left it for the other tab: leaving    *)
(* unmounts the component, which loses its state, while the timers it set  *)
(* and the storage calls it started stay alive.  The table markup modelled *)
(* is the desktop one (the first match of the handlers' querySelector).    *)
(*                                                                         *)
(* Spec leaves the clock at 0 and lets a pending timer fire at any step;   *)
(* SpecTimed follows the sleep table against the clock; SpecForm follows   *)
(* the creation form of the sleep table (clocks, presets, the duration it  *)
(* shows, the record it submits) from several mount instants.              *)
(***************************************************************************)
EXTENDS Integers, Sequences, FiniteSets

\* ------------------------------------------------------------ bounds
\* Storage calls (create, update, delete) dispatched in one behaviour.
MaxCalls == 2
\* Rows a table of the storage holds: a create is submitted below it.
MaxRows == 3
\* Edit timers (setTimeout handles) created in one behaviour.
MaxTimers == 2
\* The clock advances in steps of TickMs up to MaxNow.
TickMs == 250
MaxNow == 1500

\* ------------------------------------------------------------ tables
Tables == {"feedings", "sleep"}

\* The tab that mounts the table of cache key t.
TabOf(t) == IF t = "feedings" THEN "feeding" ELSE "sleep"

\* The cache key whose table the selected tab mounts.
KeyOf(tb) == IF tb = "feeding" THEN "feedings" ELSE "sleep"

\* ------------------------------------------------------------ values
\* A value handed to the storage update: text, a number, null or NaN.
Text(s) == [k |-> "text", s |-> s]
Num(s) == [k |-> "num", s |-> s]
NullVal == [k |-> "null", s |-> ""]
NaN == [k |-> "nan", s |-> ""]

\* The record fields hold the text form of a value; "null" stands for null.
NullText == "null"

\* parseFloat over the texts the amount input can hold, behind the
\* emptiness test of the handlers: value ? parseFloat(value) : null.
ParseAmount(s) == IF s = "" THEN NullVal ELSE Num(s)

\* parseInt over the texts the duration input can hold.
ParseIntText(s) == IF s = "" THEN NaN ELSE Num(s)

\* feeding[field]?.toString(): undefined for a null field.
ToStringOpt(s) == IF s = NullText THEN "undefined" ELSE s

\* What the storage keeps for a value: JSON.stringify turns NaN into null.
Stored(v) == IF v.k \in {"null", "nan"} THEN NullText ELSE v.s

\* ------------------------------------------------------------ fields
editableFields == <<"feedingType", "duration", "amount", "notes">>

TextFields == {"duration", "amount", "notes"}

IndexOf(f) == CHOOSE i \in 1..Len(editableFields) : editableFields[i] = f

\* editableFields[(currentIndex + 1) % editableFields.length]
NextField(f) == editableFields[(IndexOf(f) % Len(editableFields)) + 1]

FeedingTypes == {"breast", "bottle", "solids"}

\* Texts a user types into the inputs of a row.
InputTexts(f) ==
  CASE f = "duration" -> {"", "20", "45"}
    [] f = "amount" -> {"", "4.5"}
    [] OTHER -> {"", "ok"}

\* Edits handed to the sleep table's handleInlineEdit.
SleepEdits == {<<"notes", Text("a")>>, <<"notes", Text("b")>>,
               <<"sleepType", Text("nap")>>}

NoKey == [id |-> 0, field |-> ""]
Key(i, f) == [id |-> i, field |-> f]

NoDraft == ""

\* ------------------------------------------------------------ state
VARIABLES
  store,          \* storage collaborator: the rows of each table
  nextId,         \* storage collaborator: the next generated identity
  cache,          \* list cache: the displayed list of each cache key
  fetch,          \* list cache: the re-fetch of each cache key
  tab,            \* Dashboard: the selected tab
  showForm,       \* mounted table: creation form shown
  editingId,      \* mounted table: id of the row in edit mode, 0 for null
  deleteConfirmId,\* mounted table: id awaiting delete confirmation, 0 for null
  editTimeoutRef, \* mounted table: handle of the edit timer, 0 for null
  savingField,    \* mounted table: key shown as saving, NoKey for null
  highlightedField,\* mounted table: key highlighted, NoKey for null
  focus,          \* mounted table: field of the focused control, "" for none
  draft,          \* mounted table: text held by the focused input
  focusReq,       \* mounted table: field the pending setTimeout(0) will focus
  timers,         \* pending edit timers (setTimeout 500)
  hlTimers,       \* pending highlight timers of the mounted table, oldest first
  inflight,       \* storage calls dispatched and not yet completed
  toast,          \* the last notice raised
  nextHandle,     \* next setTimeout handle
  nCalls,         \* storage calls dispatched so far
  cancelled,      \* history: the timers cleared while pending, and by what
  now,            \* the clock (Date.now()): ms since the midnight of day 0
  form,           \* sleep table: the values held by the creation form
  preview         \* sleep table: the duration last rendered by the form

comp == <<showForm, editingId, deleteConfirmId, editTimeoutRef, savingField,
          highlightedField, focus, draft, focusReq>>
server == <<store, nextId>>
sleepForm == <<form, preview>>
vars == <<store, nextId, cache, fetch, tab, showForm, editingId,
          deleteConfirmId, editTimeoutRef, savingField, highlightedField,
          focus, draft, focusReq, timers, hlTimers, inflight, toast,
          nextHandle, nCalls, cancelled, now, form, preview>>

\* ------------------------------------------------------------ time
\* Timestamps are ms since the local midnight of day 0; a clock ("HH:mm")
\* is held as minutes after midnight.  A day has 24 hours.
MinuteMs == 60 * 1000
DayMs == 24 * 60 * MinuteMs
DayMinutes == 24 * 60

Clock(h, m) == h * 60 + m

\* The instant at which the clock c of day d begins.
At(d, c) == d * DayMs + c * MinuteMs

\* date.setHours(hours, minutes): the day, the seconds and the milliseconds
\* of the date are kept.
SetHours(t, c) == (t \div DayMs) * DayMs + c * MinuteMs + (t % MinuteMs)

\* date-fns differenceInMinutes(later, earlier): whole minutes, truncated
\* toward zero.
differenceInMinutes(later, earlier) ==
  IF later >= earlier
  THEN (later - earlier) \div MinuteMs
  ELSE 0 - ((earlier - later) \div MinuteMs)

\* Variant of FormatHHmm: the minutes since the midnight of day 0, the day
\* not dropped.
FormatElapsed(t) == t \div MinuteMs

\* date-fns format(date, "HH:mm"): the clock portion of the date.
FormatHHmm(t) == (t % DayMs) \div MinuteMs

\* ------------------------------------------------- duration calculator
SleepTypes == {"nap", "night"}

napPresets == <<[hours |-> 0, minutes |-> 30], [hours |-> 1, minutes |-> 0],
                [hours |-> 1, minutes |-> 30], [hours |-> 2, minutes |-> 0]>>

nightPresets == <<[hours |-> 8, minutes |-> 0], [hours |-> 10, minutes |-> 0],
                  [hours |-> 12, minutes |-> 0]>>

recommendedDurations ==
  [nap |-> [min |-> 20, max |-> 180], night |-> [min |-> 420, max |-> 780]]

\* Variant of Classify: the two boundary values fall outside the range.
ClassifyOpen(minutes, sleepType) ==
  LET r == recommendedDurations[sleepType] IN
  IF minutes <= r.min THEN "text-yellow-500"
  ELSE IF minutes >= r.max THEN "text-red-500"
  ELSE "text-green-500"

\* durationClass of calculateDuration: yellow below the minimum, red above
\* the maximum, green otherwise.
Classify(minutes, sleepType) ==
  LET r == recommendedDurations[sleepType] IN
  IF minutes < r.min THEN "text-yellow-500"
  ELSE IF minutes > r.max THEN "text-red-500"
  ELSE "text-green-500"

\* calculateDuration over the form values f: the first new Date() reads the
\* clock at t1, the second at t2; each keeps its own seconds through
\* setHours.
calculateDuration(f, t1, t2) ==
  LET startDateTime == SetHours(t1, f.startTime)
      endDateTime == SetHours(t2, f.endTime)
      rolled == IF endDateTime < startDateTime
                THEN endDateTime + DayMs
                ELSE endDateTime
      minutes == differenceInMinutes(rolled, startDateTime)
  IN [minutes |-> minutes, class |-> Classify(minutes, f.sleepType)]

\* The ms that pass between the two clock reads of one call of
\* calculateDuration.
ReadGaps == {0, 1}

\* defaultValues of the creation form: the clock of the instant the table
\* is mounted and the clock eight hours later (the clock does not advance
\* while the form is in use).
DefaultForm ==
  [startTime |-> FormatHHmm(now),
   endTime |-> FormatHHmm(now + 8 * 60 * MinuteMs),
   sleepType |-> "night"]

\* No duration is rendered: the form is not shown.
NoPreview == [minutes |-> 0, class |-> "none"]

\* The duration the form renders for the values f: a result of
\* calculateDuration() (the markup evaluates it for the class and once more
\* for the text).
Render(f) == \E g \in ReadGaps : preview' = calculateDuration(f, now, now + g)

\* ------------------------------------------------------------ rows
FeedingRow(i, ty, du, am, no) ==
  [id |-> i, feedingType |-> ty, duration |-> du, amount |-> am, notes |-> no]

SleepRow(i, st, en, ty, no) ==
  [id |-> i, startTime |-> st, endTime |-> en, sleepType |-> ty, notes |-> no]

Ids(rows) == {r.id : r \in rows}

\* feedings.find(f => f.id === id): the rows of the list with that id.
Find(rows, i) == {r \in rows : r.id = i}

\* The row a handler of the row in edit mode closes over.
RowOf(rows, i) == CHOOSE r \in rows : r.id = i

\* The row the storage creates for a submitted form.
NewRow(m, i) ==
  IF m.tbl = "feedings" THEN FeedingRow(i, "breast", "20", NullText, "")
  ELSE SleepRow(i, m.val.startTime, m.val.endTime, m.val.sleepType, "")

\* Variant of IsEditing: every row is in edit mode once an identity is set.
IsEditingAny(row) == editingId # 0

\* A row is rendered in edit mode: editingId === feeding.id.
IsEditing(row) == editingId = row.id

\* Variant of Rendered: the amount input is rendered for every feeding.
RenderedAlways(rows, f) == \E r \in rows : IsEditing(r)

\* The control of field f of the row in edit mode is in the document: the
\* amount input is rendered for a bottle feeding only.
Rendered(rows, f) ==
  \E r \in rows : IsEditing(r) /\ (f = "amount" => r.feedingType = "bottle")

\* defaultValue of an input of the row in edit mode: duration, amount ?? '',
\* notes ?? ''.  The inputs are uncontrolled: an input shows this text until
\* the user types another one (any text is the user's to retype, so only the
\* text of the focused input is kept).
DefaultValue(rows, f) ==
  IF f \notin TextFields \/ ~Rendered(rows, f) THEN ""
  ELSE IF RowOf(rows, editingId)[f] = NullText THEN ""
  ELSE RowOf(rows, editingId)[f]

\* ------------------------------------------------------- storage calls
\* A storage call in flight.  cur: it is the current mutation of the hook
\* (useMutation observer) of a mounted table, the only one whose callbacks
\* given to mutate() run; live: the table that dispatched it is still mounted.
Call(t, kind, i, f, v, h, isLive) ==
  [tbl |-> t, kind |-> kind, id |-> i, field |-> f, val |-> v, h |-> h,
   cur |-> isLive, live |-> isLive]

\* A later mutate() of the same hook detaches the hook from its earlier call.
Supersede(q, t, kind, isLive) ==
  [k \in 1..Len(q) |->
     IF isLive /\ q[k].tbl = t /\ q[k].kind = kind /\ q[k].live
     THEN [q[k] EXCEPT !.cur = FALSE] ELSE q[k]]

\* mutation.mutate(...): the storage call is dispatched.
Mutate(t, kind, i, f, v, h, isLive) ==
  /\ nCalls < MaxCalls
  /\ inflight' = Append(Supersede(inflight, t, kind, isLive),
                        Call(t, kind, i, f, v, h, isLive))
  /\ nCalls' = nCalls + 1

Remove(q, k) == SubSeq(q, 1, k - 1) \o SubSeq(q, k + 1, Len(q))

\* mutation.isPending of a hook of the mounted table.
IsPending(t, kind) ==
  \E k \in 1..Len(inflight) :
    inflight[k].tbl = t /\ inflight[k].kind = kind /\ inflight[k].cur

\* Variant of Invalidate: the other table's list is marked.
InvalidateOther(t) ==
  [fetch EXCEPT ![CHOOSE u \in Tables : u # t] = TRUE]

\* queryClient.invalidateQueries({ queryKey: [t] }): the list is marked for a
\* re-fetch, which replaces one already under way.
Invalidate(t) == [fetch EXCEPT ![t] = TRUE]

\* The columns of the schema declared notNull reject a null.
Valid(f, v) ==
  f \in {"feedingType", "duration", "startTime", "sleepType"} =>
    v.k \notin {"null", "nan"}

\* The storage's "update one field of one record".
ApplyUpdate(rows, i, f, v) ==
  {IF r.id = i THEN [r EXCEPT ![f] = Stored(v)] ELSE r : r \in rows}

\* Variant of Refetch: the re-fetch resolves and the displayed list is kept.
RefetchStale(t) ==
  /\ fetch[t]
  /\ fetch' = [fetch EXCEPT ![t] = FALSE]
  /\ UNCHANGED <<server, cache, tab, comp, timers, hlTimers, inflight, toast,
                 nextHandle, nCalls, cancelled, now, sleepForm>>

\* The re-fetch resolves with the rows the storage holds: the displayed list
\* is replaced as a whole.  A focused input whose row (or whose amount cell)
\* is no longer in the list is gone with it.
Refetch(t) ==
  /\ fetch[t]
  /\ cache' = [cache EXCEPT ![t] = store[t]]
  /\ fetch' = [fetch EXCEPT ![t] = FALSE]
  /\ IF tab = "feeding" /\ t = "feedings" /\ focus # ""
        /\ ~Rendered(store[t], focus)
     THEN focus' = "" /\ draft' = NoDraft
     ELSE UNCHANGED <<draft, focus>>
  /\ UNCHANGED <<server, tab, showForm, editingId, deleteConfirmId,
                 editTimeoutRef, savingField, highlightedField, focusReq,
                 timers, hlTimers, inflight, toast, nextHandle, nCalls,
                 cancelled, now, sleepForm>>

\* ------------------------------------------------- completion of calls
Updates(k) ==
  /\ k \in 1..Len(inflight)
  /\ inflight[k].kind = "update"

\* An update resolves: the storage has replaced the field.  Then the hook's
\* onSuccess runs (invalidate, notice, setEditingId(null)), then the onSuccess
\* given to mutate() if the call is still the hook's current one: the
\* highlight is marked and its 1000 ms timer set, and the feeding table also
\* leaves edit mode and clears the saving indicator.
UpdateSucceed(k) ==
  /\ Updates(k)
  /\ LET m == inflight[k] IN
     /\ Find(store[m.tbl], m.id) # {}
     /\ Valid(m.field, m.val)
     /\ store' = [store EXCEPT ![m.tbl] = ApplyUpdate(@, m.id, m.field, m.val)]
     /\ fetch' = Invalidate(m.tbl)
     /\ toast' = IF m.cur THEN "saved" ELSE "updated"
     /\ inflight' = Remove(inflight, k)
     /\ IF m.live
        THEN /\ editingId' = 0
             /\ focus' = ""
             /\ draft' = NoDraft
        ELSE UNCHANGED <<editingId, focus, draft>>
     /\ IF m.cur
        THEN /\ highlightedField' = Key(m.id, m.field)
             /\ hlTimers' = Append(hlTimers, Key(m.id, m.field))
             /\ savingField' = IF m.tbl = "feedings" THEN NoKey ELSE savingField
        ELSE UNCHANGED <<highlightedField, hlTimers, savingField>>
  /\ UNCHANGED <<nextId, cache, tab, showForm, deleteConfirmId, editTimeoutRef,
                 focusReq, timers, nextHandle, nCalls, cancelled, now, sleepForm>>

\* Variant of UpdateReject: the value is kept in the displayed list although
\* the storage refused it.
UpdateRejectApplied(k) ==
  /\ Updates(k)
  /\ LET m == inflight[k] IN
     /\ toast' = IF m.cur /\ m.tbl = "feedings" THEN "save failed"
                 ELSE "update failed"
     /\ inflight' = Remove(inflight, k)
     /\ savingField' = IF m.cur /\ m.tbl = "feedings" THEN NoKey
                       ELSE savingField
     /\ cache' = [cache EXCEPT ![m.tbl] = ApplyUpdate(@, m.id, m.field, m.val)]
  /\ UNCHANGED <<server, fetch, tab, showForm, editingId,
                 deleteConfirmId, editTimeoutRef, highlightedField, focus,
                 draft, focusReq, timers, hlTimers, nextHandle, nCalls,
                 cancelled, now, sleepForm>>

\* An update rejects (the id is unknown, the value is refused, the transport
\* fails): the hook's onError raises a notice, and the onError given to
\* mutate() by the feeding table clears the saving indicator.
UpdateReject(k) ==
  /\ Updates(k)
  /\ LET m == inflight[k] IN
     /\ toast' = IF m.cur /\ m.tbl = "feedings" THEN "save failed"
                 ELSE "update failed"
     /\ inflight' = Remove(inflight, k)
     /\ savingField' = IF m.cur /\ m.tbl = "feedings" THEN NoKey
                       ELSE savingField
  /\ UNCHANGED <<server, cache, fetch, tab, showForm, editingId,
                 deleteConfirmId, editTimeoutRef, highlightedField, focus,
                 draft, focusReq, timers, hlTimers, nextHandle, nCalls,
                 cancelled, now, sleepForm>>

\* Variant of CreateSucceed: the creation form stays as it was.
CreateSucceedOpen(k) ==
  /\ k \in 1..Len(inflight)
  /\ inflight[k].kind = "create"
  /\ LET m == inflight[k] IN
     /\ store' = [store EXCEPT ![m.tbl] = @ \cup {NewRow(m, nextId[m.tbl])}]
     /\ nextId' = [nextId EXCEPT ![m.tbl] = @ + 1]
     /\ fetch' = Invalidate(m.tbl)
     /\ inflight' = Remove(inflight, k)
  /\ toast' = "created"
  /\ UNCHANGED <<cache, tab, showForm, editingId, deleteConfirmId,
                 editTimeoutRef, savingField, highlightedField, focus, draft,
                 focusReq, timers, hlTimers, nextHandle, nCalls, cancelled,
                 now, sleepForm>>

\* A create resolves: the storage holds a new row under a fresh identity; the
\* list is invalidated, the form closed and reset.
CreateSucceed(k) ==
  /\ k \in 1..Len(inflight)
  /\ inflight[k].kind = "create"
  /\ LET m == inflight[k] IN
     /\ store' = [store EXCEPT ![m.tbl] = @ \cup {NewRow(m, nextId[m.tbl])}]
     /\ nextId' = [nextId EXCEPT ![m.tbl] = @ + 1]
     /\ fetch' = Invalidate(m.tbl)
     /\ inflight' = Remove(inflight, k)
     /\ IF m.live
        THEN /\ showForm' = FALSE
             /\ form' = DefaultForm
             /\ preview' = NoPreview
        ELSE UNCHANGED <<showForm, sleepForm>>
  /\ toast' = "created"
  /\ UNCHANGED <<cache, tab, editingId, deleteConfirmId, editTimeoutRef,
                 savingField, highlightedField, focus, draft, focusReq,
                 timers, hlTimers, nextHandle, nCalls, cancelled, now>>

\* A delete resolves: the row is gone from the storage; the list is
\* invalidated and the confirmation closed.
DeleteSucceed(k) ==
  /\ k \in 1..Len(inflight)
  /\ inflight[k].kind = "delete"
  /\ LET m == inflight[k] IN
     /\ Find(store[m.tbl], m.id) # {}
     /\ store' = [store EXCEPT ![m.tbl] = @ \ Find(@, m.id)]
     /\ fetch' = Invalidate(m.tbl)
     /\ inflight' = Remove(inflight, k)
     /\ deleteConfirmId' = IF m.live THEN 0 ELSE deleteConfirmId
  /\ toast' = "deleted"
  /\ UNCHANGED <<nextId, cache, tab, showForm, editingId, editTimeoutRef,
                 savingField, highlightedField, focus, draft, focusReq, timers,
                 hlTimers, nextHandle, nCalls, cancelled, now, sleepForm>>

\* A create or a delete rejects: the hook's onError raises a notice.
CallReject(k) ==
  /\ k \in 1..Len(inflight)
  /\ inflight[k].kind \in {"create", "delete"}
  /\ toast' = IF inflight[k].kind = "create" THEN "create failed"
              ELSE "delete failed"
  /\ inflight' = Remove(inflight, k)
  /\ UNCHANGED <<server, cache, fetch, tab, comp, timers, hlTimers, nextHandle,
                 nCalls, cancelled, now, sleepForm>>

\* The oldest highlight timer fires: setHighlightedField(null).
HighlightExpire ==
  /\ hlTimers # <<>>
  /\ hlTimers' = Tail(hlTimers)
  /\ highlightedField' = NoKey
  /\ UNCHANGED <<server, cache, fetch, tab, showForm, editingId,
                 deleteConfirmId, editTimeoutRef, savingField, focus, draft,
                 focusReq, timers, inflight, toast, nextHandle, nCalls,
                 cancelled, now, sleepForm>>

\* ------------------------------------------------------- feeding table
\* The feeding table takes a gesture: it is mounted and shown, the delete
\* confirmation (a modal dialog) is closed, and no setTimeout(0) is pending.
FeedingUI ==
  /\ tab = "feeding"
  /\ ~showForm
  /\ deleteConfirmId = 0
  /\ focusReq = ""

\* A text input of the row in edit mode has the focus.
InputFocused == focus \in TextFields /\ Rendered(cache["feedings"], focus)

\* The value handleKeyDown and handleClickOutside compute from an input:
\* field === 'amount' ? (value ? parseFloat(value) : null) : value.
KeyValue(f, s) == IF f = "amount" THEN ParseAmount(s) ELSE Text(s)

\* The value the onBlur of each input computes.
BlurValue(f, s) ==
  CASE f = "duration" -> ParseIntText(s)
    [] f = "amount" -> ParseAmount(s)
    [] OTHER -> Text(s)

\* Variant of HandleInlineEdit: the saving indicator is set and the update
\* left for later.
HandleInlineEditDeferred(i, f, v) ==
  /\ savingField' = Key(i, f)
  /\ UNCHANGED <<inflight, nCalls>>

\* handleInlineEdit of the feeding table: the saving indicator is set and the
\* update dispatched at once.
HandleInlineEdit(i, f, v) ==
  /\ savingField' = Key(i, f)
  /\ Mutate("feedings", "update", i, f, v, 0, TRUE)

\* Variant of BlurCommit: the blur commits nothing.
BlurCommitNone == UNCHANGED <<savingField, inflight, nCalls>>

\* The focused input loses the focus: its onBlur commits its text.
BlurCommit ==
  IF InputFocused
  THEN HandleInlineEdit(editingId, focus, BlurValue(focus, draft))
  ELSE UNCHANGED <<savingField, inflight, nCalls>>

\* onClick of a cell of another row: setEditingId(feeding.id); the amount cell
\* does so for a bottle feeding only.  The click takes the focus from the
\* input that had it.
ClickCell(r, c) ==
  /\ FeedingUI
  /\ r \in Ids(cache["feedings"])
  /\ r # editingId
  /\ c \in {editableFields[i] : i \in 1..Len(editableFields)}
  /\ BlurCommit
  /\ focus' = ""
  /\ draft' = NoDraft
  /\ editingId' =
       IF c = "amount" => RowOf(cache["feedings"], r).feedingType = "bottle"
       THEN r ELSE editingId
  /\ UNCHANGED <<server, cache, fetch, tab, showForm, deleteConfirmId,
                 editTimeoutRef, highlightedField, focusReq, timers, hlTimers,
                 toast, nextHandle, cancelled, now, sleepForm>>

\* The user moves the focus to a control of the row in edit mode.
FocusControl(f) ==
  /\ FeedingUI
  /\ f \in {editableFields[i] : i \in 1..Len(editableFields)}
  /\ Rendered(cache["feedings"], f)
  /\ focus # f
  /\ BlurCommit
  /\ focus' = f
  /\ draft' = DefaultValue(cache["feedings"], f)
  /\ UNCHANGED <<server, cache, fetch, tab, showForm, editingId,
                 deleteConfirmId, editTimeoutRef, highlightedField,
                 focusReq, timers, hlTimers, toast, nextHandle, cancelled, now, sleepForm>>

\* The focus leaves the row for a place inside the table that takes no click.
BlurAway ==
  /\ FeedingUI
  /\ focus # ""
  /\ BlurCommit
  /\ focus' = ""
  /\ draft' = NoDraft
  /\ UNCHANGED <<server, cache, fetch, tab, showForm, editingId,
                 deleteConfirmId, editTimeoutRef, highlightedField,
                 focusReq, timers, hlTimers, toast, nextHandle, cancelled, now, sleepForm>>

\* The user types into the focused input.
Type(s) ==
  /\ FeedingUI
  /\ InputFocused
  /\ s \in InputTexts(focus)
  /\ s # draft
  /\ draft' = s
  /\ UNCHANGED <<server, cache, fetch, tab, showForm, editingId,
                 deleteConfirmId, editTimeoutRef, savingField,
                 highlightedField, focus, focusReq, timers, hlTimers,
                 inflight, toast, nextHandle, nCalls, cancelled, now, sleepForm>>

\* Variant of KeyEnter: the field is committed and the next field asked to
\* take the focus.
KeyEnterAdvance ==
  /\ FeedingUI
  /\ InputFocused
  /\ HandleInlineEdit(editingId, focus, KeyValue(focus, draft))
  /\ focusReq' = NextField(focus)
  /\ UNCHANGED <<server, cache, fetch, tab, showForm, editingId,
                 deleteConfirmId, editTimeoutRef, highlightedField, focus,
                 draft, timers, hlTimers, toast, nextHandle, cancelled, now, sleepForm>>

\* handleKeyDown, Enter: the field is committed.
KeyEnter ==
  /\ FeedingUI
  /\ InputFocused
  /\ HandleInlineEdit(editingId, focus, KeyValue(focus, draft))
  /\ UNCHANGED <<server, cache, fetch, tab, showForm, editingId,
                 deleteConfirmId, editTimeoutRef, highlightedField, focus,
                 draft, focusReq, timers, hlTimers, toast, nextHandle,
                 cancelled, now, sleepForm>>

\* handleKeyDown, Escape: setEditingId(null), then target.blur(), which runs
\* the onBlur of the input.
KeyEscape ==
  /\ FeedingUI
  /\ InputFocused
  /\ BlurCommit
  /\ editingId' = 0
  /\ focus' = ""
  /\ draft' = NoDraft
  /\ UNCHANGED <<server, cache, fetch, tab, showForm, deleteConfirmId,
                 editTimeoutRef, highlightedField, focusReq, timers, hlTimers,
                 toast, nextHandle, cancelled, now, sleepForm>>

\* target.value !== feeding[field]?.toString()
FieldChanged ==
  draft # ToStringOpt(RowOf(cache["feedings"], editingId)[focus])

\* handleKeyDown, Tab: the field is committed when its text differs from the
\* row's value, and the focus is asked to move to the next field.
KeyTab ==
  /\ FeedingUI
  /\ InputFocused
  /\ IF FieldChanged
     THEN HandleInlineEdit(editingId, focus, KeyValue(focus, draft))
     ELSE UNCHANGED <<savingField, inflight, nCalls>>
  /\ focusReq' = NextField(focus)
  /\ UNCHANGED <<server, cache, fetch, tab, showForm, editingId,
                 deleteConfirmId, editTimeoutRef, highlightedField, focus,
                 draft, timers, hlTimers, toast, nextHandle, cancelled, now, sleepForm>>

\* The setTimeout(0) of Tab and of the type selection: the control of the
\* requested field, when the document holds one, takes the focus.
FocusTimeout ==
  /\ tab = "feeding"
  /\ focusReq # ""
  /\ focusReq' = ""
  /\ IF ~showForm /\ Rendered(cache["feedings"], focusReq)
        /\ focus # focusReq
     THEN /\ BlurCommit
          /\ focus' = focusReq
          /\ draft' = DefaultValue(cache["feedings"], focusReq)
     ELSE UNCHANGED <<savingField, inflight, nCalls, focus, draft>>
  /\ UNCHANGED <<server, cache, fetch, tab, showForm, editingId,
                 deleteConfirmId, editTimeoutRef, highlightedField,
                 timers, hlTimers, toast, nextHandle, cancelled, now, sleepForm>>

\* onKeyDown of the type selector, Tab: the duration input takes the focus.
TriggerTab ==
  /\ FeedingUI
  /\ focus = "feedingType"
  /\ focus' = "duration"
  /\ draft' = DefaultValue(cache["feedings"], "duration")
  /\ UNCHANGED <<server, cache, fetch, tab, showForm, editingId,
                 deleteConfirmId, editTimeoutRef, savingField,
                 highlightedField, focusReq, timers, hlTimers,
                 inflight, toast, nextHandle, nCalls, cancelled, now, sleepForm>>

\* onKeyDown of the type selector, Escape: setEditingId(null).
TriggerEscape ==
  /\ FeedingUI
  /\ focus = "feedingType"
  /\ editingId' = 0
  /\ focus' = ""
  /\ draft' = NoDraft
  /\ UNCHANGED <<server, cache, fetch, tab, showForm, deleteConfirmId,
                 editTimeoutRef, savingField, highlightedField, focusReq,
                 timers, hlTimers, inflight, toast, nextHandle, nCalls,
                 cancelled, now, sleepForm>>

\* onValueChange of the type selector, then its onOpenChange(false): the type
\* is committed, the duration input asked to take the focus, edit mode left.
SelectType(v) ==
  /\ FeedingUI
  /\ focus = "feedingType"
  /\ v \in FeedingTypes
  /\ v # RowOf(cache["feedings"], editingId).feedingType
  /\ HandleInlineEdit(editingId, "feedingType", Text(v))
  /\ focusReq' = "duration"
  /\ editingId' = 0
  /\ focus' = ""
  /\ draft' = NoDraft
  /\ UNCHANGED <<server, cache, fetch, tab, showForm, deleteConfirmId,
                 editTimeoutRef, highlightedField, timers, hlTimers, toast,
                 nextHandle, cancelled, now, sleepForm>>

\* "Edit" / "Done" of the row menu: setEditingId(editingId === id ? null : id).
DropdownEdit(r) ==
  /\ FeedingUI
  /\ focus = ""
  /\ r \in Ids(cache["feedings"])
  /\ editingId' = IF editingId = r THEN 0 ELSE r
  /\ UNCHANGED <<server, cache, fetch, tab, showForm, deleteConfirmId,
                 editTimeoutRef, savingField, highlightedField, focus, draft,
                 focusReq, timers, hlTimers, inflight, toast, nextHandle,
                 nCalls, cancelled, now, sleepForm>>

\* The first element of the document with data-editing="true" is the type
\* selector of the row in edit mode, a button, whose value is the empty text.
ActiveInputField == "feedingType"
ActiveInputValue == ""

\* handleClickOutside of the feeding table: the active input's field is
\* committed with its value, then setEditingId(null).
FeedingClickOutside ==
  /\ tab = "feeding"
  /\ focusReq = ""
  /\ IF editingId # 0 /\ ~showForm
        /\ Rendered(cache["feedings"], ActiveInputField)
     THEN HandleInlineEdit(editingId, ActiveInputField,
                           KeyValue(ActiveInputField, ActiveInputValue))
     ELSE UNCHANGED <<savingField, inflight, nCalls>>
  /\ editingId' = 0
  /\ focus' = ""
  /\ draft' = NoDraft
  /\ UNCHANGED <<server, cache, fetch, tab, showForm, deleteConfirmId,
                 editTimeoutRef, highlightedField, focusReq, timers, hlTimers,
                 toast, nextHandle, cancelled, now, sleepForm>>

\* ------------------------------------------- form, delete, tabs (both)
\* The header button: setShowForm(!showForm).  The table and the form
\* replace each other in the document.
ToggleForm ==
  /\ tab # "none"
  /\ deleteConfirmId = 0
  /\ focusReq = ""
  /\ focus = ""
  /\ showForm' = ~showForm
  /\ IF tab = "sleep" /\ ~showForm
     THEN Render(form)
     ELSE preview' = NoPreview
  /\ UNCHANGED <<server, cache, fetch, tab, editingId, deleteConfirmId,
                 editTimeoutRef, savingField, highlightedField, focus, draft,
                 focusReq, timers, hlTimers, inflight, toast, nextHandle,
                 nCalls, cancelled, now, form>>

\* The resolver of the creation form accepts the values of the form.  The
\* feeding form validates with insertFeedingSchema, whose duration is a
\* number, while the form holds the Slider's array ([20]): its values never
\* pass.  The sleep form has no resolver.
FormValid(t) == t = "sleep"

\* mutationFn of the sleep createMutation: both timestamps are built from
\* the date of the form (the instant the form was first rendered), and the
\* end is moved to the next day when it falls before the start.
CreateData ==
  LET startDateTime == SetHours(now, form.startTime)
      endDateTime == SetHours(now, form.endTime)
  IN [k |-> "data", s |-> "",
      startTime |-> startDateTime,
      endTime |-> IF endDateTime < startDateTime
                  THEN endDateTime + DayMs
                  ELSE endDateTime,
      sleepType |-> form.sleepType]

\* Variant of SubmitCreate: a duration outside the recommended range is
\* not saved.
SubmitCreateRecommended ==
  /\ showForm
  /\ ~IsPending(KeyOf(tab), "create")
  /\ FormValid(KeyOf(tab))
  /\ preview.class = "text-green-500"
  /\ Cardinality(store[KeyOf(tab)]) < MaxRows
  /\ Mutate(KeyOf(tab), "create", 0, "", CreateData, 0, TRUE)
  /\ UNCHANGED <<server, cache, fetch, tab, comp, timers, hlTimers, toast,
                 nextHandle, cancelled, now, sleepForm>>

\* The form is submitted: form.handleSubmit validates the values and then
\* runs createMutation.mutate(data).  The submit button is disabled while a
\* create is pending.
SubmitCreate ==
  /\ showForm
  /\ ~IsPending(KeyOf(tab), "create")
  /\ FormValid(KeyOf(tab))
  /\ Cardinality(store[KeyOf(tab)]) < MaxRows
  /\ Mutate(KeyOf(tab), "create", 0, "", CreateData, 0, TRUE)
  /\ UNCHANGED <<server, cache, fetch, tab, comp, timers, hlTimers, toast,
                 nextHandle, cancelled, now, sleepForm>>

\* Variant of DropdownDelete: the row is deleted at once, with no
\* confirmation.
DropdownDeleteNow(r) ==
  /\ tab # "none"
  /\ ~showForm
  /\ deleteConfirmId = 0
  /\ focusReq = ""
  /\ focus = ""
  /\ r \in Ids(cache[KeyOf(tab)])
  /\ Mutate(KeyOf(tab), "delete", r, "", NullVal, 0, TRUE)
  /\ UNCHANGED <<server, cache, fetch, tab, comp, timers, hlTimers, toast,
                 nextHandle, cancelled, now, sleepForm>>

\* "Delete" of the row menu: setDeleteConfirmId(id).
DropdownDelete(r) ==
  /\ tab # "none"
  /\ ~showForm
  /\ deleteConfirmId = 0
  /\ focusReq = ""
  /\ focus = ""
  /\ r \in Ids(cache[KeyOf(tab)])
  /\ deleteConfirmId' = r
  /\ UNCHANGED <<server, cache, fetch, tab, showForm, editingId,
                 editTimeoutRef, savingField, highlightedField, focus, draft,
                 focusReq, timers, hlTimers, inflight, toast, nextHandle,
                 nCalls, cancelled, now, sleepForm>>

\* "Delete" of the confirmation: deleteConfirmId &&
\* deleteMutation.mutate(deleteConfirmId); disabled while a delete is pending.
ConfirmDelete ==
  /\ deleteConfirmId # 0
  /\ ~IsPending(KeyOf(tab), "delete")
  /\ Mutate(KeyOf(tab), "delete", deleteConfirmId, "", NullVal, 0, TRUE)
  /\ UNCHANGED <<server, cache, fetch, tab, comp, timers, hlTimers, toast,
                 nextHandle, cancelled, now, sleepForm>>

\* "Cancel" of the confirmation, or its onOpenChange: setDeleteConfirmId(null).
CancelDelete ==
  /\ deleteConfirmId # 0
  /\ deleteConfirmId' = 0
  /\ UNCHANGED <<server, cache, fetch, tab, showForm, editingId,
                 editTimeoutRef, savingField, highlightedField, focus, draft,
                 focusReq, timers, hlTimers, inflight, toast, nextHandle,
                 nCalls, cancelled, now, sleepForm>>

\* The other tab is selected: the mounted table is unmounted and its state
\* is lost.  Its edit timers and storage calls stay pending; its state setters
\* no longer have an effect and the callbacks it gave to mutate() no longer
\* run.  (The table mounted in its place is a behaviour of its own: the two
\* tables share no state but the notices.)
SwitchTab ==
  /\ tab # "none"
  /\ deleteConfirmId = 0
  /\ focusReq = ""
  /\ focus = ""
  /\ tab' = "none"
  /\ showForm' = FALSE
  /\ editingId' = 0
  /\ editTimeoutRef' = 0
  /\ savingField' = NoKey
  /\ highlightedField' = NoKey
  /\ timers' = {[tm EXCEPT !.live = FALSE] : tm \in timers}
  /\ hlTimers' = <<>>
  /\ inflight' = [k \in 1..Len(inflight) |->
                    [inflight[k] EXCEPT !.live = FALSE, !.cur = FALSE]]
  /\ preview' = NoPreview
  /\ UNCHANGED <<server, cache, fetch, deleteConfirmId, focus, draft, form,
                 focusReq, toast, nextHandle, nCalls, cancelled, now>>

\* --------------------------------------------------------- sleep table
\* Variant of ClearTimeout: the timer stays pending.
ClearTimeoutNone(h) == timers

\* The delay handleInlineEdit gives to setTimeout, in ms.
EditDelay == 500

\* clearTimeout(editTimeoutRef.current): the pending timer of that handle
\* is removed.
ClearTimeout(h) == {tm \in timers : tm.h # h}

\* History of the timers that were pending when they were cleared.
Cleared(h, by) ==
  cancelled \cup {[h |-> tm.h, id |-> tm.id, field |-> tm.field,
                    val |-> tm.val, at |-> tm.at, by |-> by] :
                     tm \in {x \in timers : x.h = h}}

\* handleInlineEdit of the sleep table: the timer the ref holds is cleared,
\* the saving indicator set, and a 500 ms timer set that will dispatch the
\* update of (sleep.id, field) with value.
SleepHandleInlineEdit(r, f, v) ==
  /\ tab = "sleep"
  /\ ~showForm
  /\ deleteConfirmId = 0
  /\ r \in Ids(cache["sleep"])
  /\ <<f, v>> \in SleepEdits
  /\ nextHandle <= MaxTimers
  /\ timers' = (IF editTimeoutRef # 0 THEN ClearTimeout(editTimeoutRef)
                ELSE timers)
               \cup {[h |-> nextHandle, id |-> r, field |-> f, val |-> v,
                      at |-> now, live |-> TRUE]}
  /\ cancelled' = IF editTimeoutRef # 0 THEN Cleared(editTimeoutRef, "edit")
                  ELSE cancelled
  /\ savingField' = Key(r, f)
  /\ editTimeoutRef' = nextHandle
  /\ nextHandle' = nextHandle + 1
  /\ UNCHANGED <<server, cache, fetch, tab, showForm, editingId,
                 deleteConfirmId, highlightedField, focus, draft, focusReq,
                 hlTimers, inflight, toast, nCalls, now, sleepForm>>

\* The 500 ms timer fires: updateMutation.mutate(...), setEditingId(null),
\* setSavingField(null), editTimeoutRef.current = null.
SleepTimerFire(tm) ==
  /\ tm \in timers
  /\ timers' = timers \ {tm}
  /\ Mutate("sleep", "update", tm.id, tm.field, tm.val, tm.h, tm.live)
  /\ IF tm.live
     THEN /\ editingId' = 0
          /\ savingField' = NoKey
          /\ editTimeoutRef' = 0
     ELSE UNCHANGED <<editingId, savingField, editTimeoutRef>>
  /\ UNCHANGED <<server, cache, fetch, tab, showForm, deleteConfirmId,
                 highlightedField, focus, draft, focusReq, hlTimers, toast,
                 nextHandle, cancelled, now, sleepForm>>

\* Variant of SleepClickOutside: the ref is reset but its timer not cleared.
SleepClickOutsideKeep ==
  /\ tab = "sleep"
  /\ editTimeoutRef' = 0
  /\ editingId' = 0
  /\ UNCHANGED <<server, cache, fetch, tab, showForm, deleteConfirmId,
                 savingField, highlightedField, focus, draft, focusReq,
                 timers, hlTimers, inflight, toast, nextHandle, nCalls,
                 cancelled, now, sleepForm>>

\* handleClickOutside of the sleep table: the timer the ref holds is cleared
\* and the ref reset, then setEditingId(null).
SleepClickOutside ==
  /\ tab = "sleep"
  /\ IF editTimeoutRef # 0
     THEN /\ timers' = ClearTimeout(editTimeoutRef)
          /\ cancelled' = Cleared(editTimeoutRef, "outside")
          /\ editTimeoutRef' = 0
     ELSE UNCHANGED <<timers, cancelled, editTimeoutRef>>
  /\ editingId' = 0
  /\ UNCHANGED <<server, cache, fetch, tab, showForm, deleteConfirmId,
                 savingField, highlightedField, focus, draft, focusReq,
                 hlTimers, inflight, toast, nextHandle, nCalls, now, sleepForm>>

\* The sleep rows the storage holds at first.
StoredSleep ==
  {SleepRow(1, At(0, Clock(22, 0)), At(1, Clock(6, 0)), "night", NullText),
   SleepRow(2, At(0, Clock(14, 0)), At(0, Clock(15, 0)), "nap", NullText)}

\* Sleep rows of which the first is stored with its endTime on the day of
\* its startTime: the end is before the start.
StoredEndBeforeStart ==
  {SleepRow(1, At(0, Clock(22, 0)), At(0, Clock(6, 0)), "night", NullText),
   SleepRow(2, At(0, Clock(14, 0)), At(0, Clock(15, 0)), "nap", NullText)}

\* The storage and the lists once the first fetch has resolved.
InitStore(sleepRows) ==
  /\ store = [t \in Tables |->
       IF t = "feedings"
       THEN {FeedingRow(1, "bottle", "20", "4.5", "ok"),
             FeedingRow(2, "breast", "20", NullText, NullText)}
       ELSE sleepRows]
  /\ nextId = [t \in Tables |-> 3]
  /\ cache = store
  /\ fetch = [t \in Tables |-> FALSE]

\* The component as mounted.
InitComp ==
  /\ showForm = FALSE
  /\ editingId = 0
  /\ deleteConfirmId = 0
  /\ editTimeoutRef = 0
  /\ savingField = NoKey
  /\ highlightedField = NoKey
  /\ focus = ""
  /\ draft = NoDraft
  /\ focusReq = ""
  /\ timers = {}
  /\ hlTimers = <<>>
  /\ inflight = <<>>
  /\ toast = "none"
  /\ nextHandle = 1
  /\ nCalls = 0
  /\ cancelled = {}
  /\ form = DefaultForm
  /\ preview = NoPreview

Init ==
  /\ InitStore(StoredSleep)
  /\ tab \in {"feeding", "sleep"}
  /\ now = 0
  /\ InitComp

Ks == 1..MaxCalls
Rs == 1..(2 + MaxCalls)

Next ==
  \/ \E t \in Tables : Refetch(t)
  \/ \E k \in Ks : UpdateSucceed(k)
  \/ \E k \in Ks : UpdateReject(k)
  \/ \E k \in Ks : CreateSucceed(k)
  \/ \E k \in Ks : DeleteSucceed(k)
  \/ \E k \in Ks : CallReject(k)
  \/ HighlightExpire
  \/ \E r \in Rs : \E c \in TextFields \cup {"feedingType"} : ClickCell(r, c)
  \/ \E f \in TextFields \cup {"feedingType"} : FocusControl(f)
  \/ BlurAway
  \/ \E s \in {"", "20", "45", "4.5", "ok"} : Type(s)
  \/ KeyEnter
  \/ KeyEscape
  \/ KeyTab
  \/ FocusTimeout
  \/ TriggerTab
  \/ TriggerEscape
  \/ \E v \in FeedingTypes : SelectType(v)
  \/ \E r \in Rs : DropdownEdit(r)
  \/ FeedingClickOutside
  \/ ToggleForm
  \/ SubmitCreate
  \/ \E r \in Rs : DropdownDelete(r)
  \/ ConfirmDelete
  \/ CancelDelete
  \/ SwitchTab
  \/ \E r \in Rs : \E e \in SleepEdits : SleepHandleInlineEdit(r, e[1], e[2])
  \/ \E tm \in timers : SleepTimerFire(tm)
  \/ SleepClickOutside

Spec == Init /\ [][Next]_vars

\* ------------------------------------------- the sleep table with a clock
\* Time passes.
Tick ==
  /\ now < MaxNow
  /\ now' = now + TickMs
  /\ UNCHANGED <<server, cache, fetch, tab, comp, timers, hlTimers, inflight,
                 toast, nextHandle, nCalls, cancelled, sleepForm>>

\* Variant of TimedFire: the callback runs without waiting for the delay.
TimedFireEarly(tm) == SleepTimerFire(tm)

\* setTimeout(callback, 500): the callback runs once the delay has passed
\* since the timer was set.
TimedFire(tm) ==
  /\ now >= tm.at + EditDelay
  /\ SleepTimerFire(tm)

\* The sleep table is the mounted one.
InitTimed == Init /\ tab = "sleep"

NextTimed ==
  \/ Tick
  \/ \E r \in Rs : \E e \in SleepEdits : SleepHandleInlineEdit(r, e[1], e[2])
  \/ \E tm \in timers : TimedFire(tm)
  \/ SleepClickOutside
  \/ \E k \in Ks : UpdateSucceed(k)
  \/ \E k \in Ks : UpdateReject(k)
  \/ \E t \in Tables : Refetch(t)

SpecTimed == InitTimed /\ [][NextTimed]_vars

\* -------------------------------------------------- eventual refresh
\* A storage call in flight completes, one way or the other.
Complete ==
  \E k \in Ks :
    \/ UpdateSucceed(k)
    \/ UpdateReject(k)
    \/ CreateSucceed(k)
    \/ DeleteSucceed(k)
    \/ CallReject(k)

\* Every storage call eventually completes, and the re-fetch requested for
\* the list of the mounted table (an active query) eventually resolves; the
\* user is free to stop at any time.
SpecLive ==
  /\ Init
  /\ [][Next]_vars
  /\ WF_vars(Complete)
  /\ WF_vars(\E t \in Tables : tab = TabOf(t) /\ Refetch(t))

\* ------------------------------------------ the sleep creation form
\* Clocks typed into the time inputs of the form.
StartClocks == {Clock(14, 0), Clock(22, 0)}
EndClocks == {Clock(4, 59), Clock(5, 0), Clock(11, 0), Clock(11, 1),
              Clock(14, 19), Clock(14, 20), Clock(17, 0), Clock(17, 1),
              Clock(22, 0)}

\* Instants at which the table is mounted: 22:00 as the minute begins, the
\* last ms of that minute, the last ms of the day.
FormInstants == {At(0, Clock(22, 0)), At(0, Clock(22, 1)) - 1, DayMs - 1}

\* field.onChange of the startTime input.
SetStartTime(c) ==
  /\ tab = "sleep"
  /\ showForm
  /\ form' = [form EXCEPT !.startTime = c]
  /\ Render(form')
  /\ UNCHANGED <<server, cache, fetch, tab, comp, timers, hlTimers, inflight,
                 toast, nextHandle, nCalls, cancelled, now>>

\* field.onChange of the endTime input.
SetEndTime(c) ==
  /\ tab = "sleep"
  /\ showForm
  /\ form' = [form EXCEPT !.endTime = c]
  /\ Render(form')
  /\ UNCHANGED <<server, cache, fetch, tab, comp, timers, hlTimers, inflight,
                 toast, nextHandle, nCalls, cancelled, now>>

\* onValueChange of the sleepType select.
SetSleepType(ty) ==
  /\ tab = "sleep"
  /\ showForm
  /\ form' = [form EXCEPT !.sleepType = ty]
  /\ Render(form')
  /\ UNCHANGED <<server, cache, fetch, tab, comp, timers, hlTimers, inflight,
                 toast, nextHandle, nCalls, cancelled, now>>

\* The presets offered for the sleep type of the form.
Presets == IF form.sleepType = "nap" THEN napPresets ELSE nightPresets

\* A preset button is clicked: the end clock becomes the start clock plus
\* the preset, formatted as "HH:mm".
applyPreset(preset) ==
  /\ tab = "sleep"
  /\ showForm
  /\ LET startDate == SetHours(now, form.startTime)
         endDate == startDate + preset.hours * 60 * MinuteMs
                              + preset.minutes * MinuteMs
     IN form' = [form EXCEPT !.endTime = FormatHHmm(endDate)]
  /\ Render(form')
  /\ UNCHANGED <<server, cache, fetch, tab, comp, timers, hlTimers, inflight,
                 toast, nextHandle, nCalls, cancelled, now>>

InitForm ==
  /\ InitStore(StoredEndBeforeStart)
  /\ tab = "sleep"
  /\ now \in FormInstants
  /\ InitComp

NextForm ==
  \/ ToggleForm
  \/ \E c \in StartClocks : SetStartTime(c)
  \/ \E c \in EndClocks : SetEndTime(c)
  \/ \E ty \in SleepTypes : SetSleepType(ty)
  \/ \E n \in 1..Len(Presets) : applyPreset(Presets[n])
  \/ SubmitCreate
  \/ \E k \in Ks : CreateSucceed(k)

SpecForm == InitForm /\ [][NextForm]_vars

\* The duration the table shows for a listed row: differenceInMinutes of its
\* endTime and its startTime (the text is hours "h" minutes "m").
TableDuration(log) == differenceInMinutes(log.endTime, log.startTime)

\* ------------------------------------------------------------ properties
\* The update calls in flight for the key (id, field) of table t.
UpdatesFor(t, i, f) ==
  {k \in 1..Len(inflight) :
     /\ inflight[k].kind = "update"
     /\ inflight[k].tbl = t
     /\ inflight[k].id = i
     /\ inflight[k].field = f}

\* The step dispatches one update of (i, f) of the feeding table with v.
Dispatched(i, f, v) ==
  /\ Len(inflight') = Len(inflight) + 1
  /\ LET m == inflight'[Len(inflight')] IN
     /\ m.tbl = "feedings"
     /\ m.kind = "update"
     /\ m.id = i
     /\ m.field = f
     /\ m.val = v

\* The step replaces an active edit target by another one.
NewTargetStep == editingId # 0 /\ editingId' # 0 /\ editingId' # editingId

\* C1: in the sleep table an edit of a key made before the timer of an
\* earlier edit of that key fired cancels that timer: a key has at most one
\* pending timer, and a timer cancelled by a later edit is neither pending
\* nor does the update it carried ever reach the storage calls.
C1_DebounceReplaces ==
  /\ \A a \in timers : \A b \in timers :
       (a.id = b.id /\ a.field = b.field) => a = b
  /\ \A c \in cancelled :
       c.by = "edit" =>
         /\ \A tm \in timers : tm.h # c.h
         /\ \A k \in 1..Len(inflight) : inflight[k].h # c.h

\* C1 witness: edit A of a key was cancelled by edit B of the same key with
\* another value, and B's update is the one in flight.
C1_Witness ==
  \E c \in cancelled : \E k \in 1..Len(inflight) :
    /\ c.by = "edit"
    /\ inflight[k].tbl = "sleep"
    /\ inflight[k].h > c.h
    /\ inflight[k].id = c.id
    /\ inflight[k].field = c.field
    /\ inflight[k].val # c.val

\* C2: for one key (record, field) at most one storage update is in flight
\* at any moment, in either table.
C2_OneUpdateInFlightPerKey ==
  \A t \in Tables : \A j \in 1..Len(inflight) :
    inflight[j].kind = "update" =>
      Cardinality(UpdatesFor(t, inflight[j].id, inflight[j].field)) <= 1

\* C3: in the displayed list of the mounted table at most one row is in
\* edit mode.
C3_SingleEditTarget ==
  \A t \in Tables :
    tab = TabOf(t) => Cardinality({r \in cache[t] : IsEditing(r)}) <= 1

\* C3 witness: a row of a list of several rows is in edit mode.
C3_Witness ==
  /\ tab = "feeding"
  /\ Cardinality(cache["feedings"]) >= 2
  /\ \E r \in cache["feedings"] : editingId = r.id

\* C4 as stated: whenever a new edit target replaces an active one, the
\* previous target is committed in that step (feeding table; the sleep table
\* would discard).
C4_ExitAlwaysProcessed ==
  [][NewTargetStep =>
       \E f \in TextFields \cup {"feedingType"} :
         \E v \in {inflight'[k].val : k \in 1..Len(inflight')} :
           Dispatched(editingId, f, v)]_vars

\* C4 amended: when a new edit target replaces an active one, the text of
\* the previous row's focused input is committed in that step, before the new
\* target is active; when no input of the previous row has the focus the
\* previous target is replaced with no commit at all.
C4_ExitWhenFocused ==
  [][NewTargetStep =>
       IF InputFocused
       THEN Dispatched(editingId, focus, BlurValue(focus, draft))
       ELSE inflight' = inflight]_vars

\* C4 witness: a new row is in edit mode, no control has the focus yet, and
\* the last call dispatched commits a text input of another row whose saving
\* indicator is still set.
C4_Witness ==
  /\ tab = "feeding"
  /\ editingId # 0
  /\ focus = ""
  /\ inflight # <<>>
  /\ LET m == inflight[Len(inflight)] IN
     /\ m.kind = "update"
     /\ m.field \in TextFields
     /\ m.id # editingId
     /\ savingField = Key(m.id, m.field)

\* C5: Escape in a feeding field leaves edit mode and dispatches no storage
\* update of the typed value.
C5_EscapeDiscards ==
  [][KeyEscape => (editingId' = 0 /\ inflight' = inflight)]_vars

\* C6: when the storage update of the row in edit mode rejects, edit mode
\* is left.
C6_RejectReturnsIdle ==
  [][\A k \in Ks :
       (UpdateReject(k) /\ inflight[k].cur /\ editingId = inflight[k].id)
       => editingId' = 0]_vars

\* C7: when a storage update rejects, the displayed list is left as it was:
\* the candidate value is not applied to it.
C7_RejectKeepsList ==
  [][\A k \in Ks :
       (Updates(k) /\ toast' \in {"save failed", "update failed"}
          /\ inflight' = Remove(inflight, k))
       => (cache' = cache /\ store' = store)]_vars

\* C7 witness: the only update dispatched was rejected and the displayed
\* list still is what the storage holds.
C7_Witness ==
  /\ toast \in {"save failed", "update failed"}
  /\ nCalls = 1
  /\ inflight = <<>>
  /\ cache = store

\* C8: every inline commit of the mounted table that succeeds marks the highlight of exactly its
\* key, leaves edit mode, and requests the re-fetch of a storage that holds
\* the committed value.
C8_CommitSuccess ==
  [][\A k \in Ks :
       (UpdateSucceed(k) /\ inflight[k].live) =>
         /\ highlightedField' = Key(inflight[k].id, inflight[k].field)
         /\ editingId' = 0
         /\ fetch'[inflight[k].tbl]
         /\ \A r \in store'[inflight[k].tbl] :
              r.id = inflight[k].id =>
                r[inflight[k].field] = Stored(inflight[k].val)]_vars

\* C9: a create, update or delete that succeeds invalidates the list of its
\* own table and of no other, and the displayed list changes only in a step
\* where a requested re-fetch resolves with what the storage holds.
C9_RefreshOnly ==
  [][/\ cache' # cache =>
          \E t \in Tables :
            fetch[t] /\ cache' = [cache EXCEPT ![t] = store[t]]
     /\ \A k \in Ks :
          (UpdateSucceed(k) \/ CreateSucceed(k) \/ DeleteSucceed(k)) =>
            fetch' = [fetch EXCEPT ![inflight[k].tbl] = TRUE]]_vars

\* C9 witness: a call succeeded, the re-fetch of the mounted table's list is
\* requested and the displayed list is still the old one.
C9_Witness ==
  /\ tab # "none"
  /\ toast \in {"saved", "updated", "created", "deleted"}
  /\ fetch[KeyOf(tab)]
  /\ ~fetch[CHOOSE u \in Tables : u # KeyOf(tab)]
  /\ cache[KeyOf(tab)] # store[KeyOf(tab)]

\* C10: in the sleep table an outside pointer interaction while a commit is
\* pending cancels the timer, leaves edit mode and dispatches nothing, and a
\* timer cancelled that way is never pending again nor ever dispatched.
C10_OutsideCancels ==
  [][/\ SleepClickOutside =>
          /\ \A tm \in timers' : ~tm.live
          /\ editingId' = 0
          /\ editTimeoutRef' = 0
          /\ inflight' = inflight
     /\ \A c \in cancelled' :
          c.by = "outside" =>
            /\ \A tm \in timers' : tm.h # c.h
            /\ \A k \in 1..Len(inflight') : inflight'[k].h # c.h]_vars

\* C10 witness: a pending commit was cancelled by an outside interaction and
\* no timer is left.
C10_Witness ==
  /\ tab = "sleep"
  /\ \E c \in cancelled : c.by = "outside"
  /\ timers = {}
  /\ editTimeoutRef = 0

\* C11: in the sleep table only an edit of the same key cancels a pending
\* commit: a step that schedules an edit of another field or another record
\* leaves every pending timer pending.
C11_OnlySameKeyCancels ==
  [][\A tm \in timers : \A n \in timers' :
       (/\ tm.h \notin {x.h : x \in timers'}
        /\ n.h \notin {x.h : x \in timers}
        /\ inflight' = inflight)
       => (n.id = tm.id /\ n.field = tm.field)]_vars

\* C13: a commit of the feeding table by blur, Enter or Tab dispatches the
\* storage update in the step of the gesture, and the feeding table never
\* holds a pending commit timer.
C13_FeedingImmediate ==
  [][/\ (tab = "feeding" /\ savingField' # savingField /\ savingField' # NoKey)
          => /\ Dispatched(savingField'.id, savingField'.field,
                           inflight'[Len(inflight')].val)
             /\ timers' = {}
             /\ editTimeoutRef' = 0
     /\ (KeyEnter \/ (BlurAway /\ InputFocused) \/ (KeyTab /\ FieldChanged))
          => \E v \in {inflight'[k].val : k \in 1..Len(inflight')} :
               Dispatched(editingId, focus, v)]_vars

\* C13 witness: the focused input of the feeding table has been committed by
\* Enter and its update is in flight with no timer set.
C13_Witness ==
  /\ tab = "feeding"
  /\ InputFocused
  /\ timers = {}
  /\ inflight # <<>>
  /\ LET m == inflight[Len(inflight)] IN
     /\ m.kind = "update"
     /\ m.id = editingId
     /\ m.field = focus
     /\ savingField = Key(editingId, focus)

\* C14: an outside pointer interaction while an input of the feeding row in
\* edit mode has the focus commits exactly that input's field with its
\* value, coerced by field, and leaves edit mode.
C14_OutsideCommitsFocused ==
  [][(FeedingClickOutside /\ InputFocused /\ ~showForm) =>
       /\ Dispatched(editingId, focus, KeyValue(focus, draft))
       /\ editingId' = 0]_vars

\* C15: Tab in a feeding field commits the field being left if and only if
\* its text differs from the row's value, the move of the focus that
\* completes the Tab commits nothing more, and the row stays in edit mode.
C15_TabCommitsIffChanged ==
  [][/\ KeyTab =>
          /\ IF FieldChanged
             THEN Dispatched(editingId, focus, KeyValue(focus, draft))
             ELSE inflight' = inflight
          /\ editingId' = editingId
          /\ focusReq' = NextField(focus)
     /\ FocusTimeout => inflight' = inflight]_vars

\* C16: Tab moves the focus along feedingType -> duration -> amount -> notes
\* -> feedingType within the row in edit mode, whatever the row's type: the
\* field asked for by Tab is the next of the cycle and, while the row is
\* still in edit mode, it is the field that takes the focus.
C16_TabCycle ==
  [][/\ KeyTab => (focusReq' = NextField(focus) /\ editingId' = editingId)
     /\ TriggerTab => (focus' = "duration" /\ editingId' = editingId)
     /\ (FocusTimeout /\ ~showForm
           /\ \E r \in cache["feedings"] : IsEditing(r))
          => (focus' = focusReq /\ editingId' = editingId)]_vars

\* C17: Enter in a feeding field commits that field only: exactly one update
\* of that field of the row in edit mode is dispatched, with the input's
\* text, and the focus stays where it is.
C17_EnterCommitsOnly ==
  [][KeyEnter =>
       /\ Dispatched(editingId, focus, KeyValue(focus, draft))
       /\ focus' = focus
       /\ focusReq' = ""
       /\ editingId' = editingId
       /\ timers' = timers]_vars

\* C17 witness: the first call dispatched commits the focused input, whose
\* text the call carries, and no move of the focus is asked for.
C17_Witness ==
  /\ tab = "feeding"
  /\ InputFocused
  /\ focusReq = ""
  /\ nCalls = 1
  /\ Len(inflight) = 1
  /\ inflight[1].kind = "update"
  /\ inflight[1].id = editingId
  /\ inflight[1].field = focus
  /\ inflight[1].val = KeyValue(focus, draft)

\* C18: every update the feeding table dispatches carries a value coerced by
\* field: amount a number or null, duration an integer, any other field a
\* text.
C18_CoercedByField ==
  \A k \in 1..Len(inflight) :
    (inflight[k].tbl = "feedings" /\ inflight[k].kind = "update") =>
      CASE inflight[k].field = "amount" -> inflight[k].val.k \in {"num", "null"}
        [] inflight[k].field = "duration" -> inflight[k].val.k = "num"
        [] OTHER -> inflight[k].val.k = "text"

\* C19: highlight marks of one key do not stack: the mark of a key is cleared
\* by the expiry of its latest mark only, so when it is cleared no expiry
\* timer set by a mark of that key is left pending.
C19_HighlightNoStack ==
  [][(highlightedField # NoKey /\ highlightedField' = NoKey /\ tab' = tab) =>
       \A i \in 1..Len(hlTimers') : hlTimers'[i] # highlightedField]_vars

\* C20: a delete is dispatched only for the id whose confirmation is open,
\* by the step that confirms it; cancelling the confirmation dispatches
\* nothing; a delete that succeeds requests the re-fetch of its list.
C20_DeleteConfirmed ==
  [][/\ (/\ Len(inflight') = Len(inflight) + 1
         /\ inflight'[Len(inflight')].kind = "delete")
          => /\ ConfirmDelete
             /\ deleteConfirmId # 0
             /\ inflight'[Len(inflight')].id = deleteConfirmId
             /\ inflight'[Len(inflight')].tbl = KeyOf(tab)
     /\ CancelDelete => (inflight' = inflight /\ deleteConfirmId' = 0)
     /\ (\E r \in Rs : DropdownDelete(r)) => inflight' = inflight
     /\ \A k \in Ks : DeleteSucceed(k) => fetch'[inflight[k].tbl]]_vars

\* C20 witness: a delete of a row succeeded, the row is gone from the
\* storage and the re-fetch of its list is requested.
C20_Witness ==
  /\ tab # "none"
  /\ toast = "deleted"
  /\ fetch[KeyOf(tab)]
  /\ deleteConfirmId = 0
  /\ Cardinality(store[KeyOf(tab)]) < Cardinality(cache[KeyOf(tab)])

\* C12: an update of the sleep table is dispatched only once 500 ms have
\* passed since the last edit of its key: at the dispatch every edit made of
\* that key, the one whose timer fires and the ones an edit superseded, is
\* at least 500 ms old.
C12_TrailingDebounce ==
  [][(/\ Len(inflight') = Len(inflight) + 1
      /\ inflight'[Len(inflight')].tbl = "sleep"
      /\ inflight'[Len(inflight')].kind = "update")
     => /\ \E tm \in timers :
             /\ tm.h = inflight'[Len(inflight')].h
             /\ tm.h \notin {x.h : x \in timers'}
        /\ \A e \in timers \cup {[h |-> c.h, id |-> c.id, field |-> c.field,
                                  val |-> c.val, at |-> c.at, live |-> TRUE] :
                                   c \in cancelled} :
             (e.id = inflight'[Len(inflight')].id
                /\ e.field = inflight'[Len(inflight')].field)
             => now >= e.at + EditDelay]_vars

\* C12 witness: an edit of a key was superseded inside its window by an edit
\* of the same key, whose update is dispatched once its own 500 ms are over.
C12_Witness ==
  \E c \in cancelled : \E k \in 1..Len(inflight) :
    /\ c.by = "edit"
    /\ inflight[k].tbl = "sleep"
    /\ inflight[k].h > c.h
    /\ inflight[k].id = c.id
    /\ inflight[k].field = c.field
    /\ now >= c.at + TickMs + EditDelay

\* C21: a create that succeeds requests the re-fetch of the list of its
\* table and closes the creation form of the table that submitted it; a
\* create is dispatched in the step of the submission itself, and neither
\* its dispatch nor its success sets, clears or fires an edit timer or
\* changes the row in edit mode.
C21_CreateClosesForm ==
  [][/\ \A k \in Ks :
          CreateSucceed(k) =>
            /\ fetch'[inflight[k].tbl]
            /\ inflight[k].live => ~showForm'
            /\ timers' = timers
            /\ editTimeoutRef' = editTimeoutRef
            /\ editingId' = editingId
     /\ SubmitCreate =>
          /\ Len(inflight') = Len(inflight) + 1
          /\ inflight'[Len(inflight')].kind = "create"
     /\ (/\ Len(inflight') = Len(inflight) + 1
         /\ inflight'[Len(inflight')].kind = "create")
        => /\ showForm
           /\ timers' = timers
           /\ editTimeoutRef' = editTimeoutRef
           /\ editingId' = editingId]_vars

\* C21 witness: the create of the mounted sleep table has succeeded, its
\* form is closed and the re-fetch of its list is requested.
C21_Witness ==
  /\ tab = "sleep"
  /\ toast = "created"
  /\ ~showForm
  /\ fetch["sleep"]
  /\ nextId["sleep"] = 4

\* C22: when an update is rejected because its record is no longer in the
\* storage, a notice is raised and the re-fetch of the list of its table is
\* requested.
C22_NotFoundRefreshes ==
  [][\A k \in Ks :
       (UpdateReject(k) /\ Find(store[inflight[k].tbl], inflight[k].id) = {})
       => /\ toast' \in {"save failed", "update failed"}
          /\ fetch'[inflight[k].tbl]]_vars

C28_UnmountDiscards ==
  [][tab = "none" =>
       /\ Len(inflight') <= Len(inflight)
       /\ \A tm \in timers :
            \A k \in 1..Len(inflight') : inflight'[k].h # tm.h]_vars

\* The texts of the feeding inputs that denote an integer of at least 1.
PositiveIntTexts == {"20", "45"}

\* C29: every duration the feeding table sends to the storage, in a create
\* or in an update of the field duration, is an integer of at least 1 (the
\* number, or the text of one).
C29_DurationPositiveInt ==
  \A k \in 1..Len(inflight) :
    (/\ inflight[k].tbl = "feedings"
     /\ \/ inflight[k].kind = "create"
        \/ inflight[k].kind = "update" /\ inflight[k].field = "duration")
    => /\ inflight[k].val.k \in {"num", "text"}
       /\ inflight[k].val.s \in PositiveIntTexts

\* C23: the minutes the creation form shows for its two clocks are never
\* negative, and when the end clock is before the start clock they are the
\* minutes from the start clock to midnight plus the end clock (22:00 to
\* 06:00 gives 480).
C23_ElapsedMinutes ==
  (tab = "sleep" /\ showForm) =>
    /\ preview.minutes >= 0
    /\ form.endTime < form.startTime =>
         preview.minutes = (DayMinutes - form.startTime) + form.endTime

\* C24: the class shown with a duration follows the inclusive ranges, nap
\* 20 to 180 minutes and night 420 to 780 minutes: below the minimum it is
\* the below-recommended class (yellow), above the maximum the
\* above-recommended class (red), and from the minimum to the maximum, both
\* included, the within-recommended class (green).
C24_InclusiveRanges ==
  (tab = "sleep" /\ showForm) =>
    LET lo == IF form.sleepType = "nap" THEN 20 ELSE 420
        hi == IF form.sleepType = "nap" THEN 180 ELSE 780
    IN /\ preview.minutes < lo => preview.class = "text-yellow-500"
       /\ preview.minutes > hi => preview.class = "text-red-500"
       /\ (lo <= preview.minutes /\ preview.minutes <= hi) =>
            preview.class = "text-green-500"

\* C24 witness: a night sleep of exactly 780 minutes, the maximum of its
\* range, is shown as within the recommended range.
C24_Witness ==
  /\ tab = "sleep"
  /\ showForm
  /\ form.sleepType = "night"
  /\ preview = [minutes |-> 780, class |-> "text-green-500"]

\* C25: a preset sets the end clock of the form to the start clock plus the
\* offset of the preset, modulo 24 hours, and leaves the start clock and the
\* sleep type as they are.
C25_PresetAddsOnClock ==
  [][\A ty \in SleepTypes :
       \A n \in 1..Len(IF ty = "nap" THEN napPresets ELSE nightPresets) :
         LET p == (IF ty = "nap" THEN napPresets ELSE nightPresets)[n] IN
         (form.sleepType = ty /\ applyPreset(p)) =>
           /\ form'.endTime =
                (form.startTime + p.hours * 60 + p.minutes) % DayMinutes
           /\ form'.startTime = form.startTime
           /\ form'.sleepType = form.sleepType]_vars

\* C25 witness: the 30 minutes preset applied to the start clock 14:00 has
\* set the end clock 14:30, which no other input of the form sets.
C25_Witness ==
  /\ tab = "sleep"
  /\ showForm
  /\ form = [startTime |-> Clock(14, 0), endTime |-> Clock(14, 30),
             sleepType |-> "nap"]
  /\ Clock(14, 30) \notin EndClocks

\* C26: whatever the clocks, the sleep type and the class of the duration
\* shown, the creation form of the sleep table can be submitted as long as
\* no create is pending, and the submission dispatches the create with the
\* values of the form.
C26_ClassNeverBlocks ==
  (/\ tab = "sleep"
   /\ showForm
   /\ ~IsPending("sleep", "create")
   /\ nCalls < MaxCalls
   /\ Cardinality(store["sleep"]) < MaxRows)
  => ENABLED (/\ SubmitCreate
              /\ inflight'[Len(inflight')].kind = "create"
              /\ inflight'[Len(inflight')].val.sleepType = form.sleepType)

\* C26 witness: a create is in flight whose duration is outside the
\* recommended range of its sleep type.
C26_Witness ==
  \E k \in 1..Len(inflight) :
    /\ inflight[k].kind = "create"
    /\ inflight[k].tbl = "sleep"
    /\ Classify(differenceInMinutes(inflight[k].val.endTime,
                                    inflight[k].val.startTime),
                inflight[k].val.sleepType) # "text-green-500"

\* C30: for every listed sleep row whose stored endTime is not after its
\* startTime, the duration the table shows is the one of the rollover policy
\* (the end taken on the following day) and is not negative.
C30_ListedRollover ==
  (tab = "sleep" /\ ~showForm) =>
    \A log \in cache["sleep"] :
      log.endTime <= log.startTime =>
        /\ TableDuration(log) >= 0
        /\ log.endTime < log.startTime =>
             TableDuration(log) =
               differenceInMinutes(log.endTime + DayMs, log.startTime)

\* The Tab pressed on the focused input has committed its text and the
\* setTimeout(0) that moves the focus on is still pending (no gesture is
\* taken in between).
TabCommitted ==
  /\ tab = "feeding"
  /\ focusReq # ""
  /\ InputFocused
  /\ \E k \in UpdatesFor("feedings", editingId, focus) :
       inflight[k].cur /\ inflight[k].val = KeyValue(focus, draft)

\* C31: one gesture that leaves a feeding field dispatches at most one
\* update of that field: a step of a gesture dispatches at most one call,
\* and when the key handler of Tab has committed the field, the blur of the
\* same input that ends the gesture commits nothing more.
C31_OneUpdatePerGesture ==
  [][/\ Len(inflight') <= Len(inflight) + 1
     /\ (TabCommitted /\ FocusTimeout) =>
          ~(\E v \in {inflight'[k].val : k \in 1..Len(inflight')} :
              Dispatched(editingId, focus, v))]_vars

\* C32: the success of an update dispatched for one record does not close
\* the edit mode of another record, which the user entered when or after
\* the update was dispatched.
C32_SuccessKeepsLaterTarget ==
  [][\A k \in Ks :
       (/\ UpdateSucceed(k)
        /\ tab = "feeding"
        /\ editingId # 0
        /\ editingId # inflight[k].id)
       => editingId' = editingId]_vars

\* C33: the saving indicator of the mounted table names a key only while a
\* commit of that key is pending (its timer set) or in flight; when no
\* commit is pending and none is in flight it is null.
C33_SavingOnlyWhileCommitting ==
  savingField # NoKey =>
    \/ \E tm \in timers :
         tm.live /\ Key(tm.id, tm.field) = savingField
    \/ UpdatesFor(KeyOf(tab), savingField.id, savingField.field) # {}

\* C34: while the table stays mounted, the highlight mark of a key is taken
\* away only by the expiry of a timer set by a mark of that same key: a mark
\* of another key does not replace it and the expiry timer of another key
\* does not clear it.
C34_HighlightOwnExpiry ==
  [][(/\ highlightedField # NoKey
      /\ highlightedField' # highlightedField
      /\ tab' = tab)
     => /\ HighlightExpire
        /\ hlTimers[1] = highlightedField]_vars

C36_NoUpdateAfterDelete ==
  [][(/\ Len(inflight') = Len(inflight) + 1
      /\ inflight'[Len(inflight')].kind = "update")
     => inflight'[Len(inflight')].id
          \in Ids(store[inflight'[Len(inflight')].tbl])]_vars

\* C37: the record the creation form of the sleep table submits has an
\* endTime not before its startTime and less than 24 hours after it, and
\* the minutes between the two are the duration the form shows for the same
\* two clocks.
C37_SubmittedAsPreviewed ==
  [][SubmitCreate =>
       LET data == inflight'[Len(inflight')].val IN
       /\ data.endTime >= data.startTime
       /\ data.endTime - data.startTime < DayMs
       /\ differenceInMinutes(data.endTime, data.startTime) = preview.minutes]_vars

\* C38: for every start clock and every preset offered, the minutes the
\* form shows from the start clock to the end clock a preset has set equal
\* the offset of the preset (hours * 60 + minutes), also when the end clock
\* wraps past midnight.
C38_PresetElapsedIsOffset ==
  [][\A n \in 1..Len(Presets) :
       applyPreset(Presets[n]) =>
         preview'.minutes = Presets[n].hours * 60 + Presets[n].minutes]_vars

\* C39: when the end clock equals the start clock no rollover is applied:
\* the form shows 0 minutes, and the record it submits has its endTime equal
\* to its startTime.
C39_EqualClocksNoRollover ==
  [][/\ (tab = "sleep" /\ showForm' /\ form'.endTime = form'.startTime)
          => preview'.minutes = 0
     /\ (SubmitCreate /\ form.endTime = form.startTime)
          => inflight'[Len(inflight')].val.endTime
               = inflight'[Len(inflight')].val.startTime]_vars

=============================================================================
